---- MODULE Spec2Model ----
(***************************************************************************)
(* killod.py: kill every OneDrive process by name, then reopen OneDrive,   *)
(* narrating each phase on the console.  The script is a straight line of  *)
(* twelve statements; the model interprets them one statement per step,    *)
(* with each subprocess.run split into the spawn of the child and the      *)
(* child's return, so that blocking, ordering and OS-level failure of the  *)
(* two invocations are visible.                                            *)
(***************************************************************************)
EXTENDS Integers, Sequences, FiniteSets

\* ------------------------------------------------------------------ bounds
\* Longest text a child writes to one of its streams.
MaxLen == 1
\* Largest exit status a child returns (0 = success).
MaxRc == 1
\* Number of OneDrive processes that may be running before the script starts.
MaxProcs == 2

\* --------------------------------------------------------------- constants
Alphabet == {97}
Bytes == UNION {[1..k -> Alphabet] : k \in 0..MaxLen}
ReturnCodes == 0..MaxRc
Pids == 1..MaxProcs

Sep == "----------------"
KillArgv == <<"killall", "OneDrive">>
OpenArgv == <<"open", "-a", "OneDrive">>

Stmt(op, text, argv) == [op |-> op, text |-> text, argv |-> argv]

\* variant: the separator between the two phases is left out
ProgramNoSeparator ==
    << Stmt("print", Sep, <<>>),
       Stmt("print", "Killing OneDrive...", <<>>),
       Stmt("print", Sep, <<>>),
       Stmt("run", "", KillArgv),
       Stmt("echo", "", <<>>),
       Stmt("print", "OneDrive Killed", <<>>),
       Stmt("print", "Opening OneDrive...", <<>>),
       Stmt("print", Sep, <<>>),
       Stmt("run", "", OpenArgv),
       Stmt("echo", "", <<>>),
       Stmt("print", "OneDrive open", <<>>) >>

\* The statements of the script, in source order.  "echo" is the two-line
\* statement  if result.stdout: print(result).
Program ==
    << Stmt("print", Sep, <<>>),
       Stmt("print", "Killing OneDrive...", <<>>),
       Stmt("print", Sep, <<>>),
       Stmt("run", "", KillArgv),
       Stmt("echo", "", <<>>),
       Stmt("print", "OneDrive Killed", <<>>),
       Stmt("print", Sep, <<>>),
       Stmt("print", "Opening OneDrive...", <<>>),
       Stmt("print", Sep, <<>>),
       Stmt("run", "", OpenArgv),
       Stmt("echo", "", <<>>),
       Stmt("print", "OneDrive open", <<>>) >>

\* ------------------------------------------------------------------- state
VARIABLES
    pc,        \* index of the next statement of Program
    waiting,   \* TRUE while subprocess.run blocks on its child
    status,    \* "running", "done" (fell off the end) or "aborted" (uncaught exception)
    exitCode,  \* the interpreter's exit status once status # "running", -1 before
    result,    \* the script's variable  result  (a CompletedProcess)
    console,   \* what has appeared on the terminal, in order
    calls,     \* the invocations asked of the OS so far, in order
    procs,     \* the OneDrive processes that existed before the run
    fresh      \* TRUE once open has started a new OneDrive instance

vars == <<pc, waiting, status, exitCode, result, console, calls, procs, fresh>>

\* result before its first assignment
NoResult == [args |-> <<>>, returncode |-> 0, stdout |-> <<>>]

\* subprocess.CompletedProcess as run(..., stdout=PIPE) builds it: stderr is
\* not redirected, so it is not part of the object.
CompletedProcess(argv, rc, out) == [args |-> argv, returncode |-> rc, stdout |-> out]

\* One line on the terminal.  src says who wrote it: the script's print, the
\* child through the inherited standard error, or the interpreter's traceback.
Line(src, kind, str, obj, raw) ==
    [src |-> src, kind |-> kind, str |-> str, obj |-> obj, raw |-> raw]

\* print("...") of a string literal
StrLine(s) == Line("script", "str", s, NoResult, <<>>)

\* print(result): str() of a CompletedProcess is its repr,
\* CompletedProcess(args=[...], returncode=N, stdout=b'...')
ReprLine(r) == Line("script", "repr", "", r, <<>>)

\* text the child wrote to the standard error it inherited
ChildLine(b) == Line("child", "raw", "", NoResult, b)

\* the interpreter's report of an uncaught exception
TracebackLine == Line("interp", "traceback", "", NoResult, <<>>)

\* variant: the echo is not guarded
TruthyAlways(b) == TRUE

\* if result.stdout:  a bytes object is true when it is not empty
Truthy(b) == Len(b) > 0

\* variant: sys.exit(result.returncode)
ExitCodeFromResult(r) == r.returncode

\* the exit status of a script that runs off its last statement
ExitCodeAtEnd(r) == 0

\* One invocation as the OS saw it.  at is the number of lines the script had
\* printed when it made the call.
Call(argv, outcome, at, rc, out, err) ==
    [argv |-> argv, outcome |-> outcome, at |-> at,
     returncode |-> rc, stdout |-> out, stderr |-> err]

\* the lines the script itself printed, in order
Printed == SelectSeq(console, LAMBDA l : l.src = "script")

\* a process that has not exited yet, signalled or not
Alive(p) == procs[p] \in {"running", "signalled"}

\* variant: only the first matching process is signalled
KillallSignalsFirst(ps) ==
    [p \in Pids |-> IF ps[p] = "running" /\ \A q \in Pids : q < p => ps[q] # "running"
                    THEN "signalled" ELSE ps[p]]

\* killall OneDrive: SIGTERM to every running process of that name; the
\* command returns once the signals are sent, not once the processes are gone.
KillallEffect(ps) ==
    [p \in Pids |-> IF ps[p] = "running" THEN "signalled" ELSE ps[p]]

\* open -a OneDrive: starts the application unless an instance is alive, in
\* which case that instance is activated instead.
OpenEffect(ps, fr, rc) ==
    IF rc = 0 /\ \A p \in Pids : ps[p] \notin {"running", "signalled"} THEN TRUE ELSE fr

TypeOK ==
    /\ pc \in 1..(Len(Program) + 1)
    /\ waiting \in BOOLEAN
    /\ status \in {"running", "done", "aborted"}
    /\ exitCode \in -1..1
    /\ Len(calls) <= 2
    /\ procs \in [Pids -> {"absent", "running", "signalled", "exited"}]
    /\ fresh \in BOOLEAN

Init ==
    /\ pc = 1
    /\ waiting = FALSE
    /\ status = "running"
    /\ exitCode = -1
    /\ result = NoResult
    /\ console = <<>>
    /\ calls = <<>>
    /\ procs \in [Pids -> {"absent", "running"}]
    /\ fresh = FALSE

AtStmt(op) ==
    /\ status = "running"
    /\ ~waiting
    /\ pc <= Len(Program)
    /\ Program[pc].op = op

\* print("<literal>")
PrintStmt ==
    /\ AtStmt("print")
    /\ console' = Append(console, StrLine(Program[pc].text))
    /\ pc' = pc + 1
    /\ UNCHANGED <<waiting, status, exitCode, result, calls, procs, fresh>>

\* if result.stdout: print(result)
IfEcho ==
    /\ AtStmt("echo")
    /\ console' = IF Truthy(result.stdout) THEN Append(console, ReprLine(result))
                                           ELSE console
    /\ pc' = pc + 1
    /\ UNCHANGED <<waiting, status, exitCode, result, calls, procs, fresh>>

\* Popen-like variant: the child is started and the script goes on at once
SpawnNoWait ==
    /\ AtStmt("run")
    /\ calls' = Append(calls, Call(Program[pc].argv, "inflight", Len(Printed), 0, <<>>, <<>>))
    /\ pc' = pc + 1
    /\ UNCHANGED <<waiting, status, exitCode, result, console, procs, fresh>>

\* subprocess.run(argv, stdout=PIPE): the child is started and the script
\* blocks until it has finished
Spawn ==
    /\ AtStmt("run")
    /\ calls' = Append(calls, Call(Program[pc].argv, "inflight", Len(Printed), 0, <<>>, <<>>))
    /\ waiting' = TRUE
    /\ UNCHANGED <<pc, status, exitCode, result, console, procs, fresh>>

\* try/except variant: the failure is swallowed and the script goes on
SpawnRaiseSwallowed ==
    /\ AtStmt("run")
    /\ calls' = Append(calls, Call(Program[pc].argv, "raised", Len(Printed), 0, <<>>, <<>>))
    /\ pc' = pc + 1
    /\ UNCHANGED <<waiting, status, exitCode, result, console, procs, fresh>>

\* subprocess.run raises (FileNotFoundError, PermissionError): nothing
\* catches it, the interpreter prints the traceback and exits with status 1
SpawnRaise ==
    /\ AtStmt("run")
    /\ calls' = Append(calls, Call(Program[pc].argv, "raised", Len(Printed), 0, <<>>, <<>>))
    /\ console' = Append(console, TracebackLine)
    /\ status' = "aborted"
    /\ exitCode' = 1
    /\ UNCHANGED <<pc, waiting, result, procs, fresh>>

\* what the finished child leaves behind in the OS and on the terminal
ChildEffects(rc, out, err) ==
    /\ calls' = [calls EXCEPT ![Len(calls)] = Call(Program[pc].argv, "returned", calls[Len(calls)].at, rc, out, err)]
    /\ console' = IF Len(err) > 0 THEN Append(console, ChildLine(err)) ELSE console
    /\ procs' = IF Program[pc].argv = KillArgv THEN KillallEffect(procs) ELSE procs
    /\ fresh' = IF Program[pc].argv = OpenArgv THEN OpenEffect(procs, fresh, rc) ELSE fresh

\* check=True variant: a non-zero status raises CalledProcessError
ChildReturnChecked ==
    /\ status = "running"
    /\ waiting
    /\ \E rc \in ReturnCodes, out \in Bytes, err \in Bytes :
        /\ ChildEffects(rc, out, err)
        /\ waiting' = FALSE
        /\ IF rc = 0
           THEN /\ result' = CompletedProcess(Program[pc].argv, rc, out)
                /\ pc' = pc + 1
                /\ UNCHANGED <<status, exitCode>>
           ELSE /\ status' = "aborted"
                /\ exitCode' = 1
                /\ UNCHANGED <<pc, result>>

\* retry variant: a non-zero status makes the script run the command again
ChildReturnRetry ==
    /\ status = "running"
    /\ waiting
    /\ \E rc \in ReturnCodes, out \in Bytes, err \in Bytes :
        /\ ChildEffects(rc, out, err)
        /\ waiting' = FALSE
        /\ result' = CompletedProcess(Program[pc].argv, rc, out)
        /\ pc' = IF rc = 0 THEN pc + 1 ELSE pc
        /\ UNCHANGED <<status, exitCode>>

\* the child finishes: subprocess.run returns the CompletedProcess, whatever
\* the exit status (check is not set), and the script assigns it to result
ChildReturn ==
    /\ status = "running"
    /\ waiting
    /\ \E rc \in ReturnCodes, out \in Bytes, err \in Bytes :
        /\ ChildEffects(rc, out, err)
        /\ waiting' = FALSE
        /\ result' = CompletedProcess(Program[pc].argv, rc, out)
        /\ pc' = pc + 1
        /\ UNCHANGED <<status, exitCode>>

\* the script runs off its last statement
Finish ==
    /\ status = "running"
    /\ ~waiting
    /\ pc = Len(Program) + 1
    /\ status' = "done"
    /\ exitCode' = ExitCodeAtEnd(result)
    /\ UNCHANGED <<pc, waiting, result, console, calls, procs, fresh>>

\* a signalled OneDrive process exits, whenever it gets to it
ProcExit(p) ==
    /\ procs[p] = "signalled"
    /\ procs' = [procs EXCEPT ![p] = "exited"]
    /\ UNCHANGED <<pc, waiting, status, exitCode, result, console, calls, fresh>>

ScriptStep == PrintStmt \/ IfEcho \/ Spawn \/ Finish

Next ==
    \/ PrintStmt
    \/ IfEcho
    \/ Spawn
    \/ SpawnRaise
    \/ ChildReturn
    \/ Finish
    \/ \E p \in Pids : ProcExit(p)

Spec == Init /\ [][Next]_vars

\* The interpreter always takes the script's next step when there is one, and
\* a signalled process eventually exits.  Nothing makes a child return.
FairSpec ==
    /\ Spec
    /\ WF_vars(ScriptStep)
    /\ \A p \in Pids : WF_vars(ProcExit(p))

\* ------------------------------------------------------------ observations
CallsOf(argv) == {i \in 1..Len(calls) : calls[i].argv = argv}

Outcome(argv, o) == \E i \in CallsOf(argv) : calls[i].outcome = o

OpenIssued == CallsOf(OpenArgv) # {}
KillReturned == Outcome(KillArgv, "returned")
OpenReturned == Outcome(OpenArgv, "returned")
InFlight == {i \in 1..Len(calls) : calls[i].outcome = "inflight"}
Ended == status # "running"

Range(s) == {s[i] : i \in 1..Len(s)}

\* the string literals the script printed, and the results it printed
FixedLines == SelectSeq(Printed, LAMBDA l : l.kind = "str")
EchoLines == SelectSeq(Printed, LAMBDA l : l.kind = "repr")

\* the call of argv, once made
TheCall(argv) == calls[CHOOSE i \in CallsOf(argv) : TRUE]

\* the statement of the script that runs argv
StmtOf(argv) == CHOOSE i \in 1..Len(Program) : Program[i].op = "run" /\ Program[i].argv = argv

\* ------------------------------------------------------------------ claims

\* C1: the launch invocation is never issued before the termination
\* invocation has returned and its result has been handled (the conditional
\* echo and the kill-complete notice); the two never overlap and never swap.
C1_LaunchAfterKillHandled ==
    /\ Cardinality(InFlight) <= 1
    /\ \A i \in CallsOf(OpenArgv) :
          \E j \in CallsOf(KillArgv) : j < i /\ calls[j].outcome = "returned"
    /\ OpenIssued =>
          /\ StrLine("OneDrive Killed") \in Range(Printed)
          /\ Truthy(TheCall(KillArgv).stdout) =>
                \E l \in Range(Printed) : l.kind = "repr" /\ l.obj.args = KillArgv

C1_Witness ==
    /\ Outcome(OpenArgv, "inflight")
    /\ Truthy(TheCall(KillArgv).stdout)

\* C2: when the termination invocation raises at the OS level the run aborts
\* there: the launch is never attempted and none of the later narration
\* lines is printed.
C2_AbortOnKillFailure ==
    Outcome(KillArgv, "raised") =>
        /\ status = "aborted"
        /\ ~OpenIssued
        /\ Printed = <<StrLine(Sep), StrLine("Killing OneDrive..."), StrLine(Sep)>>

C2_Witness == Outcome(KillArgv, "raised") /\ Ended

\* C3: whenever the termination invocation returns, with whatever status and
\* output and however many processes matched, the run goes on to issue the
\* launch invocation.
C3_ProceedsToLaunch == KillReturned ~> OpenIssued

C3_Witness ==
    /\ OpenIssued
    /\ TheCall(KillArgv).returncode # 0
    /\ \A p \in Pids : procs[p] = "absent"

\* C10: the run is one-shot: the termination invocation is issued exactly
\* once, the launch invocation at most once and exactly once when the
\* termination invocation returned; no narration step is repeated.
C10_OneShot ==
    /\ Cardinality(CallsOf(KillArgv)) <= 1
    /\ Cardinality(CallsOf(OpenArgv)) <= 1
    /\ Ended => Cardinality(CallsOf(KillArgv)) = 1
    /\ (Ended /\ KillReturned) => Cardinality(CallsOf(OpenArgv)) = 1
    /\ Len(FixedLines) <= 8
    /\ Len(EchoLines) <= 2

C10_Witness ==
    /\ status = "done"
    /\ TheCall(KillArgv).returncode # 0
    /\ TheCall(OpenArgv).returncode # 0

EchoLen(argv) ==
    IF /\ Len(Printed) > TheCall(argv).at
       /\ Printed[TheCall(argv).at + 1].kind = "repr"
    THEN 1 ELSE 0

\* the narration of a run in which both calls returned: n fixed lines before
\* the kill call, the optional echo, the kill-complete line, n fixed lines
\* before the launch call, the optional echo, the launch-complete line
Shape(n) ==
    status = "done" =>
        /\ TheCall(KillArgv).at = n
        /\ \A k \in 1..TheCall(KillArgv).at : Printed[k].kind = "str"
        /\ Printed[n + EchoLen(KillArgv) + 1] = StrLine("OneDrive Killed")
        /\ TheCall(OpenArgv).at = n + EchoLen(KillArgv) + 1 + n
        /\ \A k \in (n + EchoLen(KillArgv) + 2)..TheCall(OpenArgv).at : Printed[k].kind = "str"
        /\ Len(Printed) = TheCall(OpenArgv).at + EchoLen(OpenArgv) + 1
        /\ Printed[Len(Printed)] = StrLine("OneDrive open")

\* C5: the narration has the same shape in every run in which both calls
\* return, with 4 fixed lines before the kill call and 4 before the launch
\* call.
C5_ShapeFourBefore == Shape(4)

\* C5 as amended: the same shape in every such run, with 3 fixed lines before
\* the kill call and 3 before the launch call.
C5_ShapeThreeBefore == Shape(3)

C5_Witness ==
    /\ status = "done"
    /\ EchoLen(KillArgv) = 1
    /\ EchoLen(OpenArgv) = 0
    /\ \A p \in Pids : procs[p] = "absent"

EightLines ==
    << StrLine(Sep), StrLine("Killing OneDrive..."), StrLine(Sep),
       StrLine("OneDrive Killed"),
       StrLine(Sep), StrLine("Opening OneDrive..."), StrLine(Sep),
       StrLine("OneDrive open") >>

EmptyCaptured == \A i \in 1..Len(calls) : calls[i].stdout = <<>>
NoStderr == \A i \in 1..Len(calls) : calls[i].stderr = <<>>

C7_AlwaysSuccess == Ended => (status = "done" /\ exitCode = 0)

\* C7 as amended: a run ends in success exactly when both calls returned; a
\* run in which an invocation raises ends aborted with a non-zero status.
C7_SuccessIffBothReturned ==
    Ended =>
        \/ /\ status = "done"
           /\ exitCode = 0
           /\ KillReturned /\ OpenReturned
        \/ /\ status = "aborted"
           /\ exitCode # 0
           /\ calls[Len(calls)].outcome = "raised"

C7_Witness ==
    /\ status = "aborted"
    /\ KillReturned
    /\ Outcome(OpenArgv, "raised")

\* C8: when both calls return, the exit status of the program is the default
\* success status whatever exit statuses and outputs the two calls returned.
C8_ExitStatusIndependent ==
    (Ended /\ KillReturned /\ OpenReturned) => exitCode = 0

C8_Witness ==
    /\ status = "done"
    /\ TheCall(KillArgv).returncode # 0
    /\ TheCall(OpenArgv).returncode # 0
    /\ Truthy(TheCall(KillArgv).stdout)
    /\ Truthy(TheCall(OpenArgv).stdout)

\* print of the captured text itself
VerbatimLine(b) == Line("script", "raw", "", NoResult, b)

\* the lines the script printed since it made the call of argv
SinceCall(argv) == SubSeq(Printed, TheCall(argv).at + 1, Len(Printed))

\* C9: for each call, what is printed between the start notice and the
\* completion notice is the captured output verbatim when it is not empty,
\* and nothing when it is empty.
C9_EchoVerbatim ==
    \A argv \in {KillArgv, OpenArgv} :
        (status = "running" /\ ~waiting /\ pc = StmtOf(argv) + 2) =>
            SinceCall(argv) = IF TheCall(argv).stdout # <<>>
                              THEN <<VerbatimLine(TheCall(argv).stdout)>>
                              ELSE <<>>

====
